---- MODULE Spec2Model ----
(***************************************************************************)
(* Model of the buff registry client: the credential store                 *)
(* (bufflib/src/buff_cli_config.rs and the legacy copy under               *)
(* src/bin/buff/buff_cli_config.rs), the login and publish flows of        *)
(* bufflib/src/registry.rs and the legacy login command                    *)
(* src/bin/buff/commands/login.rs.                                         *)
(*                                                                         *)
(* The persisted document config.toml is a set of TOML lines; the store    *)
(* in memory is a record (preferred_registry, registries) whose            *)
(* registries field is the HashMap as a set of <<url, token>> pairs.       *)
(***************************************************************************)
EXTENDS Integers, FiniteSets, Sequences, TLC

\* ------------------------------------------------------------------ bounds
NumUrls == 2

NumTokens == 2

MaxMissingDirs == 2

\* How many of the paths of PathList a package directory may hold.
NumPaths == 7

\* ------------------------------------------------------------ value sets
AllUrls == <<"localhost:50051", "localhost:50052", "localhost:50053", "localhost:50054">>

AllTokens == <<"token1", "token2", "newtoken", "tok123">>

URLs == {AllUrls[i] : i \in 1..NumUrls}

Tokens == {AllTokens[i] : i \in 1..NumTokens}

\* Two command-line invocations, which may overlap or run one after the
\* other.
Procs == {1, 2}

\* The environment variable BUFF_REGISTRY_URL: "" stands for "not set".
Unset == ""

EnvValues == URLs \cup {Unset}

VARIABLES
  file,               \* config.toml: [exists, text]; text is a set of lines
  missingDirs,        \* directory levels missing above config.toml
  saves,              \* the invocations that have saved, in order
  pc,                 \* position of each invocation
  cmd,                \* what each invocation runs
  BUFF_REGISTRY_URL,  \* each invocation's environment override
  found,              \* whether path.exists() held when it loaded
  loadedAfter,        \* how many saves preceded its load
  config,             \* the store each invocation holds in memory
  registry_url,       \* the endpoint each invocation resolved
  channel,            \* the endpoint each invocation opened a channel to
  sent,               \* the endpoint each invocation sent its RPC to
  token,              \* the token each invocation got from the Login RPC
  err,                \* why an invocation panicked
  tree,               \* the directory at the target path
  tmpfiles,           \* the output files under /tmp: [exists, bytes]
  artifact_bytes,     \* the compressed archive each invocation built
  request,            \* the request each invocation sent, once sent
  rpcs,               \* how many RPCs each invocation has sent
  BUFF_HOME,          \* the environment's override of the store's directory
  location,           \* the paths each invocation resolved: [load, save]
  manifest,           \* the document in buff.toml
  metadata            \* the PackageMetadata each invocation loaded

vars == <<file, missingDirs, saves, pc, cmd, BUFF_REGISTRY_URL, found,
          loadedAfter, config, registry_url, channel, sent, token, err,
          tree, tmpfiles, artifact_bytes, request, rpcs,
          BUFF_HOME, location, manifest, metadata>>

\* What only publish and the artifact functions touch.
pkgvars == <<tree, tmpfiles, artifact_bytes, request>>

\* -------------------------------------------------- the persisted document
PrefLine(u) == [key |-> "preferred_registry", url |-> u, token |-> ""]

TableLine == [key |-> "registries", url |-> "", token |-> ""]

RegLine(u, t) == [key |-> "registries", url |-> u, token |-> t]

JunkLine == [key |-> "junk", url |-> "", token |-> ""]

NoFile == [exists |-> FALSE, text |-> {}]

FileOf(text) == [exists |-> TRUE, text |-> text]

\* ------------------------------------------------------- get_config_path
\* Paths are sequences of components; an absolute one starts with "/".
IsAbsolute(path) == Len(path) > 0 /\ path[1] = "/"

\* PathBuf::join: an absolute argument replaces the base.
join(base, path) == IF IsAbsolute(path) THEN path ELSE base \o path

\* std::env::current_dir() and dirs::config_dir()
current_dir == <<"/", "work">>

config_dir == <<"/", "home", "user", ".config">>

\* The file a path names for a process whose directory is current_dir.
Resolve(path) == join(current_dir, path)

\* What env::var("BUFF_HOME") can meet: no variable, a value that is not
\* valid Unicode, or a directory, relative or absolute.
NoHome == [set |-> FALSE, unicode |-> TRUE, dir |-> <<>>]

NotUnicodeHome == [set |-> TRUE, unicode |-> FALSE, dir |-> <<"/", "tmp", "b\\xFF">>]

HomeDirs ==
  {<<"..", "tests", "fixtures", "buff_home">>, <<"/", "tmp", "buff_test", "buff">>}

HomeValues ==
  {NoHome, NotUnicodeHome} \cup {[set |-> TRUE, unicode |-> TRUE, dir |-> d] : d \in HomeDirs}

\* Mutant of get_config_path: the platform directory wins over BUFF_HOME.
get_config_path_platform(home) == join(config_dir, <<"buff", "config.toml">>)

\* match env::var("BUFF_HOME") { Ok(s) => current_dir().join(&s).join(..),
\* _ => config_dir().join("buff/config.toml") }: Ok is a set, Unicode value.
get_config_path(home) ==
  IF home.set /\ home.unicode
  THEN join(join(current_dir, home.dir), <<"config.toml">>)
  ELSE join(config_dir, <<"buff", "config.toml">>)

\* The legacy store: Path::new(&s).join("config.toml")
legacy_get_config_path(home) ==
  IF home.set /\ home.unicode
  THEN join(home.dir, <<"config.toml">>)
  ELSE join(config_dir, <<"buff", "config.toml">>)

NoPath == <<>>

NoLocation == [load |-> NoPath, save |-> NoPath]

\* ------------------------------------------------------ the store in memory
BuffCliConfig(pref, regs) == [preferred_registry |-> pref, registries |-> regs]

\* Mutants of HashMapInsert: one forgets every other key, one keeps the
\* old entry next to the new one.
HashMapInsert_clear(m, k, v) == {<<k, v>>}

HashMapInsert_push(m, k, v) == m \cup {<<k, v>>}

\* std::collections::HashMap::insert: the entry for k is replaced.
HashMapInsert(m, k, v) == {e \in m : e[1] # k} \cup {<<k, v>>}

Keys(m) == {e[1] : e \in m}

\* Mutant of get_default_registry_url: the environment is not consulted.
get_default_registry_url_fixed(env) == "localhost:50051"

get_default_registry_url(env) == IF env # Unset THEN env ELSE "localhost:50051"

\* Mutant of add_registry: the credential is not stored.
add_registry_noop(c, url, tok) == c

add_registry(c, url, tok) ==
  [c EXCEPT !.registries = HashMapInsert(c.registries, url, tok)]

\* Mutant of to_string: the registries table is written empty.
to_string_lossy(c) == {PrefLine(c.preferred_registry), TableLine}

\* toml::to_string of the bufflib struct: the string field, then one
\* sub-table per registry (the bare table header when the map is empty).
to_string(c) ==
  {PrefLine(c.preferred_registry)} \cup
  (IF c.registries = {} THEN {TableLine}
   ELSE {RegLine(e[1], e[2]) : e \in c.registries})

\* toml::to_string of the legacy struct, which has no preferred_registry.
legacy_to_string(c) ==
  IF c.registries = {} THEN {TableLine}
  ELSE {RegLine(e[1], e[2]) : e \in c.registries}

PrefLines(text) == {l \in text : l.key = "preferred_registry"}

RegLines(text) == {l \in text : l.key = "registries" /\ l.url # ""}

\* A TOML document parses when it has no garbage and no key twice.
WellFormed(text) ==
  /\ \A l \in text : l.key \in {"preferred_registry", "registries"}
  /\ Cardinality(PrefLines(text)) <= 1
  /\ \A l1, l2 \in RegLines(text) : l1.url = l2.url => l1 = l2

HasRegistries(text) == \E l \in text : l.key = "registries"

RegsOf(text) == {<<l.url, l.token>> : l \in RegLines(text)}

\* toml::from_str into the bufflib struct: both fields are required.
from_str_ok(text) ==
  /\ WellFormed(text)
  /\ PrefLines(text) # {}
  /\ HasRegistries(text)

from_str(text) ==
  BuffCliConfig((CHOOSE l \in PrefLines(text) : TRUE).url, RegsOf(text))

\* toml::from_str into the legacy struct: registries is required, any
\* other key is ignored.
legacy_from_str_ok(text) == WellFormed(text) /\ HasRegistries(text)

legacy_from_str(text) == BuffCliConfig("", RegsOf(text))

\* Mutant of new: the environment override beats the document.
new_envwins(f, env) ==
  IF f.exists
  THEN (IF env # Unset
        THEN [from_str(f.text) EXCEPT !.preferred_registry = env]
        ELSE from_str(f.text))
  ELSE BuffCliConfig(get_default_registry_url(env), {})

\* BuffCliConfig::new: the default store, replaced by the parsed document
\* when the file exists.  new_ok is FALSE where the expect() panics.
new_ok(f) == f.exists => from_str_ok(f.text)

\* Mutant of new: the registries of the document are not taken over.
new_empty(f, env) ==
  IF f.exists THEN BuffCliConfig(from_str(f.text).preferred_registry, {})
  ELSE BuffCliConfig(get_default_registry_url(env), {})

new(f, env) ==
  IF f.exists THEN from_str(f.text)
  ELSE BuffCliConfig(get_default_registry_url(env), {})

legacy_new_ok(f) == f.exists => legacy_from_str_ok(f.text)

legacy_new(f) ==
  IF f.exists THEN legacy_from_str(f.text) ELSE BuffCliConfig("", {})

\* BuffCliConfig::save: create_dir makes one directory level only, so it
\* panics when the parent of the config directory is missing too.
save_ok(missing) == missing <= 1

\* Mutant of save: the new document is merged into the old one.
save_merge(c) == FileOf(to_string(c) \cup {l \in file.text : l # TableLine})

save(c) == FileOf(to_string(c))

legacy_save(c) == FileOf(legacy_to_string(c))

\* ------------------------------------------------------ the package directory
\* The paths a package directory may hold, relative to its root, in the
\* order the directories list them.
PathList ==
  << <<"buff.toml">>, <<"src">>, <<"src", "main.txt">>, <<".gitignore">>,
     <<"target">>, <<"target", "out.bin">>, <<".env">>, <<"src", "target">>,
     <<"README">> >>

Paths == {PathList[i] : i \in 1..NumPaths}

PathIndex(path) == CHOOSE i \in 1..Len(PathList) : PathList[i] = path

DirPaths == {<<"src">>, <<"target">>}

HiddenNames == {".gitignore", ".env"}

Root == <<>>

LastOf(path) == path[Len(path)]

Parent(path) == SubSeq(path, 1, Len(path) - 1)

IsPrefix(a, b) == Len(a) <= Len(b) /\ SubSeq(b, 1, Len(a)) = a

FileContent(path) ==
  CASE path = <<"src", "main.txt">> -> "hi"
    [] path = <<"buff.toml">> -> "[package] name = demo"
    [] path = <<".gitignore">> -> "patterns"
    [] path = <<".env">> -> "SECRET=1"
    [] path = <<"target", "out.bin">> -> "bin"
    [] OTHER -> "text"

\* BUFF_TARGET_PATH (or the current directory) as the caller wrote it.
TargetPaths == {<<"pkg">>, <<"..", "pkg">>}

\* The patterns a .gitignore at the root may hold.
IgnorePatterns == {{}, {"target"}, {"main.txt"}}

\* A directory tree: where it is, whether the root exists, the paths in
\* it, those that cannot be opened, and the patterns of its .gitignore.
Tree(at, ex, nodes, unreadable, patterns) ==
  [at |-> at, exists |-> ex, nodes |-> nodes, unreadable |-> unreadable,
   patterns |-> patterns]

PrefixClosed(nodes) ==
  \A n \in nodes : Len(n) > 1 => Parent(n) \in nodes /\ Parent(n) \in DirPaths

Trees ==
  {Tree(at, TRUE, nodes, unreadable, patterns) :
     at \in TargetPaths,
     nodes \in {ns \in SUBSET Paths : PrefixClosed(ns)},
     unreadable \in {{}} \cup {{n} : n \in Paths \cup {Root}},
     patterns \in IgnorePatterns}

WellFormedTree(t) ==
  /\ t.unreadable \subseteq t.nodes \cup {Root}
  /\ (t.patterns # {} => <<".gitignore">> \in t.nodes)
  /\ (<<".gitignore">> \in t.unreadable => t.patterns = {})

MissingTree == Tree(<<"pkg">>, FALSE, {}, {}, {})

AllTrees == {t \in Trees : WellFormedTree(t)} \cup {MissingTree}

\* pkg/ holding buff.toml and src/main.txt, nothing else.
DemoTree ==
  Tree(<<"pkg">>, TRUE, {<<"buff.toml">>, <<"src">>, <<"src", "main.txt">>}, {}, {})

RegularFiles(t) == {n \in t.nodes : n \notin DirPaths}

\* ------------------------------------------------------- ignore::Walk::new
Children(t, dir) == {n \in t.nodes : Len(n) = Len(dir) + 1 /\ IsPrefix(dir, n)}

\* Mutant of Filtered: the walker knows hidden names only, no ignore file.
Filtered_noignore(t, path) == LastOf(path) \in HiddenNames

\* The standard filters of the walker: hidden names and the names the
\* .gitignore of an ancestor matches are passed over, with all below them.
Filtered(t, path) == LastOf(path) \in HiddenNames \/ LastOf(path) \in t.patterns

\* The children of a directory in listing order.
RECURSIVE SortedSeq(_)
SortedSeq(S) ==
  IF S = {} THEN <<>>
  ELSE LET first == CHOOSE n \in S : \A m \in S : PathIndex(n) <= PathIndex(m)
       IN <<first>> \o SortedSeq(S \ {first})

Ok(path) == [ok |-> TRUE, path |-> path]

Err(path) == [ok |-> FALSE, path |-> path]

\* One item per directory entry, depth first; a directory that cannot be
\* listed is yielded itself and followed by an error item.
RECURSIVE WalkDir(_, _)
RECURSIVE WalkSeq(_, _)
WalkDir(t, dir) ==
  IF dir \in t.unreadable THEN <<Err(dir)>>
  ELSE WalkSeq(t, SortedSeq({n \in Children(t, dir) : ~Filtered(t, n)}))

WalkSeq(t, todo) ==
  IF todo = <<>> THEN <<>>
  ELSE LET n == Head(todo)
       IN <<Ok(n)>> \o (IF n \in DirPaths THEN WalkDir(t, n) ELSE <<>>)
            \o WalkSeq(t, Tail(todo))

\* Mutant of Walk: the order of the items depends on what else has
\* happened, as with a walker whose threads race.
Walk_unstable(t) ==
  IF ~t.exists THEN <<Err(Root)>>
  ELSE IF \E p \in Procs : pc[p] = "built"
  THEN <<Ok(Root)>> \o [i \in 1..Len(WalkDir(t, Root)) |->
                          WalkDir(t, Root)[Len(WalkDir(t, Root)) + 1 - i]]
  ELSE <<Ok(Root)>> \o WalkDir(t, Root)

\* The items carry the path as the walker reports it: the root as given,
\* followed by the path below it.
Walk(t) ==
  IF ~t.exists THEN <<Err(Root)>>
  ELSE <<Ok(Root)>> \o WalkDir(t, Root)

\* ------------------------------------------------------------- artifact.rs
CurDir == <<".">>

FullPath(t, path) == t.at \o path

\* Path::strip_prefix
strip_prefix(full, prefix) == SubSeq(full, Len(prefix) + 1, Len(full))

TarEntry(name, t, path) ==
  [name |-> name,
   kind |-> IF path = Root \/ path \in DirPaths THEN "dir" ELSE "file",
   content |-> IF path = Root \/ path \in DirPaths THEN "" ELSE FileContent(path)]

\* The temporary file the archive is written to: what has been written
\* and the position of the next read or write.
tempfile == [data |-> <<>>, pos |-> 0, finished |-> FALSE]

\* A write at the current position, which then moves behind it.
write(f, e) ==
  [f EXCEPT !.data = SubSeq(f.data, 1, f.pos) \o <<e>>, !.pos = f.pos + 1]

RECURSIVE write_all(_, _)
write_all(f, entries) ==
  IF entries = <<>> THEN f
  ELSE write_all(write(f, Head(entries)), Tail(entries))

\* Builder::into_inner / finish: the archive is closed (its end blocks are
\* no entries).
finish(f) == [f EXCEPT !.finished = TRUE]

\* Mutant of seek: the position stays where the last write left it.
seek_noop(f, n) == f

\* tar_file.seek(SeekFrom::Start(n))
seek(f, n) == [f EXCEPT !.pos = n]

\* tar::Builder::append_path_with_name fails on a file it cannot open.
Appendable(t, item) ==
  item.ok /\ (item.path \in t.unreadable => (item.path = Root \/ item.path \in DirPaths))

\* Mutant of create_tar_ok: an item that fails is passed over.
create_tar_ok_skip(t, items) == TRUE

\* create_tar of bufflib: every item is unwrapped, the name is the path
\* with the root stripped, "./" for the root itself.
create_tar_ok(t, items) == \A i \in 1..Len(items) : Appendable(t, items[i])

\* Mutant of create_tar_name: the stripped path is the name, even when
\* it is empty.
create_tar_name_nomark(t, path) == strip_prefix(FullPath(t, path), t.at)

create_tar_name(t, path) ==
  IF Len(strip_prefix(FullPath(t, path), t.at)) = 0 THEN CurDir
  ELSE strip_prefix(FullPath(t, path), t.at)

create_tar(t, items) ==
  seek(finish(write_all(tempfile,
         [i \in 1..Len(items) |->
            TarEntry(create_tar_name(t, items[i].path), t, items[i].path)])), 0)

\* create_tar of the legacy artifact.rs: append_path names the entry by
\* the walked path; tar refuses a name with a ".." component.
legacy_create_tar_ok(t, items) ==
  /\ \A i \in 1..Len(items) : Appendable(t, items[i])
  /\ \A i \in 1..Len(t.at) : t.at[i] # ".."

legacy_create_tar(t, items) ==
  seek(finish(write_all(tempfile,
         [i \in 1..Len(items) |->
            TarEntry(FullPath(t, items[i].path), t, items[i].path)])), 0)

\* flate2: what the encoder makes of the bytes it read, and back.
GzEncode(bytes) == [magic |-> "gzip", payload |-> bytes]

GzDecode(z) == z.payload

\* GzEncoder over a BufReader of the file, read_to_end: the file is read
\* from its current position to its end.
get_compressed_tar(tar) ==
  GzEncode(SubSeq(tar.data, tar.pos + 1, Len(tar.data)))

NoBytes == GzEncode(<<>>)

get_artifact_bytes_ok(t) == create_tar_ok(t, Walk(t))

get_artifact_bytes(t) == get_compressed_tar(create_tar(t, Walk(t)))

create_artifact_ok(t) == legacy_create_tar_ok(t, Walk(t))

create_artifact(t) == get_compressed_tar(legacy_create_tar(t, Walk(t)))

\* PackageMetadata::new: read_to_string(buff.toml).unwrap()
PackageMetadata_ok(t) ==
  t.exists /\ <<"buff.toml">> \in t.nodes /\ <<"buff.toml">> \notin t.unreadable

\* ------------------------------------------------------ package_metadata.rs
\* A manifest document: whether it has a [package] table, the keys of
\* that table with their values, and whether it has a [dependencies]
\* table and with which name-to-version pairs.
PackageFields == {"name", "description", "keywords", "homepage", "repository_url"}

KeywordLists == {<<>>, <<"awesome", "great">>, <<"great", "awesome">>}

DependencyTables ==
  {{}, {<<"yummy_package", "1.0">>},
   {<<"yummy_package", "1.0">>, <<"other_package", "2.1">>}}

FieldValue(f, keywords) ==
  CASE f = "name" -> "test_package"
    [] f = "description" -> "test_package description"
    [] f = "keywords" -> keywords
    [] f = "homepage" -> "https://example.com"
    [] f = "repository_url" -> "https://repo.com"

ManifestDoc(hasPackage, keys, keywords, hasDeps, deps) ==
  [has_package |-> hasPackage,
   fields |-> [f \in keys |-> FieldValue(f, keywords)],
   has_dependencies |-> hasDeps,
   dependencies |-> deps]

\* Complete [package] tables and tables with one key missing, no table
\* at all, each with and without [dependencies].
Manifests ==
  {ManifestDoc(TRUE, keys, kw, TRUE, deps) :
     keys \in {PackageFields} \cup {PackageFields \ {f} : f \in PackageFields},
     kw \in KeywordLists, deps \in DependencyTables}
  \cup
  {ManifestDoc(TRUE, keys, kw, FALSE, {}) :
     keys \in {PackageFields} \cup {PackageFields \ {f} : f \in PackageFields},
     kw \in KeywordLists}
  \cup {ManifestDoc(FALSE, {}, <<>>, FALSE, {})}

\* tests/fixtures/test_artifact/buff.toml as the tests read it.
DemoManifest ==
  ManifestDoc(TRUE, PackageFields, <<"awesome", "great">>, TRUE,
              {<<"yummy_package", "1.0">>})

\* serde: every field of struct Package must be there.
Package_ok(doc) == doc.has_package /\ PackageFields \subseteq DOMAIN doc.fields

\* bufflib: struct PackageMetadata { package }; other tables are ignored.
PackageMetadata_from_str_ok(doc) == Package_ok(doc)

PackageMetadata_from_str(doc) ==
  [package |-> [f \in PackageFields |-> doc.fields[f]]]

\* legacy: struct PackageMetadata { package, dependencies: HashMap }, a
\* field serde does not default.
load_from_path_ok(doc) == Package_ok(doc) /\ doc.has_dependencies

load_from_path(doc) ==
  [package |-> [f \in PackageFields |-> doc.fields[f]],
   dependencies |-> doc.dependencies]

NoMetadata == [package |-> <<>>]

\* save_buffer_to_file: File::create(path).unwrap(), write_all.
NoTmpFile == [exists |-> FALSE, bytes |-> NoBytes]

save_buffer_to_file(buffer) == [exists |-> TRUE, bytes |-> buffer]

\* What a request carries besides its artifact when nothing else is set.
NoToken == ""

NoRequest == [artifact |-> NoBytes, token |-> NoToken]

\* PublishRequest::new(); req.set_artifact(artifact_bytes); sent with
\* CallOption::default().
PublishRequest(bytes) == [artifact |-> bytes, token |-> NoToken]

TmpPaths == {"/tmp/abc", "/tmp/test_artifact.tar.gz"}

\* ------------------------------------------------------------ initial state
IsMap(r) == \A e1, e2 \in r : e1[1] = e2[1] => e1 = e2

AllRegistries == {r \in SUBSET (URLs \X Tokens) : IsMap(r)}

AllConfigs == {BuffCliConfig(p, r) : p \in URLs, r \in AllRegistries}

Garbage == FileOf({JunkLine})

InitFiles == {NoFile, Garbage} \cup {FileOf(to_string(c)) : c \in AllConfigs}

NoConfig == BuffCliConfig("", {})

Init ==
  /\ file \in InitFiles
  /\ missingDirs \in 0..MaxMissingDirs
  /\ file.exists => missingDirs = 0
  /\ saves = <<>>
  /\ pc = [p \in Procs |-> "idle"]
  /\ cmd = [p \in Procs |-> "none"]
  /\ BUFF_REGISTRY_URL = [p \in Procs |-> Unset]
  /\ found = [p \in Procs |-> FALSE]
  /\ loadedAfter = [p \in Procs |-> 0]
  /\ config = [p \in Procs |-> NoConfig]
  /\ registry_url = [p \in Procs |-> ""]
  /\ channel = [p \in Procs |-> ""]
  /\ sent = [p \in Procs |-> ""]
  /\ token = [p \in Procs |-> ""]
  /\ err = [p \in Procs |-> ""]
  /\ tree = DemoTree
  /\ tmpfiles = [f \in TmpPaths |-> NoTmpFile]
  /\ artifact_bytes = [p \in Procs |-> NoBytes]
  /\ request = [p \in Procs |-> NoRequest]
  /\ rpcs = [p \in Procs |-> 0]
  /\ BUFF_HOME = NoHome
  /\ location = [p \in Procs |-> NoLocation]
  /\ manifest = DemoManifest
  /\ metadata = [p \in Procs |-> NoMetadata]

\* A publish and a caller of the artifact functions over any package
\* directory; the store is absent or holds one credential.
PublishFiles ==
  {NoFile, FileOf(to_string(BuffCliConfig(AllUrls[1], {<<AllUrls[1], AllTokens[1]>>})))}

InitPublish ==
  /\ file \in PublishFiles
  /\ missingDirs = 0
  /\ saves = <<>>
  /\ pc = [p \in Procs |-> "idle"]
  /\ cmd = [p \in Procs |-> "none"]
  /\ BUFF_REGISTRY_URL = [p \in Procs |-> Unset]
  /\ found = [p \in Procs |-> FALSE]
  /\ loadedAfter = [p \in Procs |-> 0]
  /\ config = [p \in Procs |-> NoConfig]
  /\ registry_url = [p \in Procs |-> ""]
  /\ channel = [p \in Procs |-> ""]
  /\ sent = [p \in Procs |-> ""]
  /\ token = [p \in Procs |-> ""]
  /\ err = [p \in Procs |-> ""]
  /\ tree \in AllTrees
  /\ tmpfiles = [f \in TmpPaths |-> NoTmpFile]
  /\ artifact_bytes = [p \in Procs |-> NoBytes]
  /\ request = [p \in Procs |-> NoRequest]
  /\ rpcs = [p \in Procs |-> 0]
  /\ BUFF_HOME = NoHome
  /\ location = [p \in Procs |-> NoLocation]
  /\ manifest = DemoManifest
  /\ metadata = [p \in Procs |-> NoMetadata]

\* ------------------------------------------------------------------ helpers
Panic(p, why) ==
  /\ pc' = [pc EXCEPT ![p] = "panicked"]
  /\ err' = [err EXCEPT ![p] = why]

\* The file system effect of a save() that does not panic.
Write(p, f) ==
  /\ file' = f
  /\ missingDirs' = 0
  /\ saves' = Append(saves, p)

\* registry.rs login/publish, lines 1-3 of each: load the store, take its
\* preferred_registry and build the channel to it.
LoadAndConnect(p, c, env) ==
  /\ BUFF_REGISTRY_URL' = [BUFF_REGISTRY_URL EXCEPT ![p] = env]
  /\ found' = [found EXCEPT ![p] = file.exists]
  /\ loadedAfter' = [loadedAfter EXCEPT ![p] = Len(saves)]
  /\ IF new_ok(file)
     THEN /\ config' = [config EXCEPT ![p] = new(file, env)]
          /\ registry_url' = [registry_url EXCEPT ![p] = new(file, env).preferred_registry]
          /\ channel' = [channel EXCEPT ![p] = new(file, env).preferred_registry]
          /\ pc' = [pc EXCEPT ![p] = "connected"]
          /\ err' = err
     ELSE /\ Panic(p, "parse")
          /\ UNCHANGED <<config, registry_url, channel>>
  /\ cmd' = [cmd EXCEPT ![p] = c]
  /\ UNCHANGED <<file, missingDirs, saves, sent, token>>
  /\ UNCHANGED <<pkgvars, rpcs>>
  /\ location' = [location EXCEPT ![p].load = get_config_path(BUFF_HOME)]
  /\ BUFF_HOME' = BUFF_HOME
  /\ UNCHANGED <<manifest, metadata>>

\* Mutant of LoginNew: an invocation waits while another one is between
\* its load and its save.
LoginNew_locked(p) ==
  /\ pc[p] = "idle"
  /\ \A q \in Procs \ {p} : pc[q] \in {"idle", "done", "panicked"}
  /\ \E env \in EnvValues : LoadAndConnect(p, "login", env)

\* Mutant of LoginRpc: a failed RPC is noted and the login goes on.
LoginRpc_swallow(p) ==
  /\ pc[p] = "connected" /\ cmd[p] = "login"
  /\ sent' = [sent EXCEPT ![p] = channel[p]]
  /\ pc' = [pc EXCEPT ![p] = "replied"]
  /\ \/ \E t \in Tokens :
          /\ token' = [token EXCEPT ![p] = t]
          /\ err' = err
     \/ /\ err' = [err EXCEPT ![p] = "rpc"]
        /\ token' = token
  /\ UNCHANGED <<file, missingDirs, saves, cmd, BUFF_REGISTRY_URL, found,
                 loadedAfter, config, registry_url, channel>>
  /\ rpcs' = [rpcs EXCEPT ![p] = @ + 1]
  /\ UNCHANGED pkgvars
  /\ UNCHANGED <<BUFF_HOME, location>>
  /\ UNCHANGED <<manifest, metadata>>

\* ------------------------------------------------- bufflib registry::login
LoginNew(p) ==
  /\ pc[p] = "idle"
  /\ \E env \in EnvValues : LoadAndConnect(p, "login", env)

\* client.login(&req).expect("Failed RPC call")
LoginRpc(p) ==
  /\ pc[p] = "connected" /\ cmd[p] = "login"
  /\ sent' = [sent EXCEPT ![p] = channel[p]]
  /\ \/ \E t \in Tokens :
          /\ token' = [token EXCEPT ![p] = t]
          /\ pc' = [pc EXCEPT ![p] = "replied"]
          /\ err' = err
     \/ /\ Panic(p, "rpc")
        /\ token' = token
  /\ UNCHANGED <<file, missingDirs, saves, cmd, BUFF_REGISTRY_URL, found,
                 loadedAfter, config, registry_url, channel>>
  /\ rpcs' = [rpcs EXCEPT ![p] = @ + 1]
  /\ UNCHANGED pkgvars
  /\ UNCHANGED <<BUFF_HOME, location>>
  /\ UNCHANGED <<manifest, metadata>>

\* Mutant of LoginSave: the token is filed under the endpoint the
\* environment names at the time of the save.
LoginSave_rekey(p) ==
  /\ pc[p] = "replied" /\ cmd[p] = "login"
  /\ config' = [config EXCEPT ![p] =
       add_registry(config[p], get_default_registry_url(BUFF_REGISTRY_URL[p]), token[p])]
  /\ IF save_ok(missingDirs)
     THEN /\ Write(p, save(config'[p]))
          /\ pc' = [pc EXCEPT ![p] = "done"]
          /\ err' = err
     ELSE /\ Panic(p, "save")
          /\ UNCHANGED <<file, missingDirs, saves>>
  /\ UNCHANGED <<cmd, BUFF_REGISTRY_URL, found, loadedAfter, registry_url,
                 channel, sent, token>>
  /\ UNCHANGED <<pkgvars, rpcs, BUFF_HOME, manifest, metadata>>
  /\ location' = [location EXCEPT ![p].save = get_config_path(BUFF_HOME)]

\* config.add_registry(registry_url, &token); config.save();
LoginSave(p) ==
  /\ pc[p] = "replied" /\ cmd[p] = "login"
  /\ config' = [config EXCEPT ![p] = add_registry(config[p], registry_url[p], token[p])]
  /\ IF save_ok(missingDirs)
     THEN /\ Write(p, save(config'[p]))
          /\ pc' = [pc EXCEPT ![p] = "done"]
          /\ err' = err
     ELSE /\ Panic(p, "save")
          /\ UNCHANGED <<file, missingDirs, saves>>
  /\ UNCHANGED <<cmd, BUFF_REGISTRY_URL, found, loadedAfter, registry_url,
                 channel, sent, token>>
  /\ UNCHANGED <<pkgvars, rpcs>>
  /\ location' = [location EXCEPT ![p].save = get_config_path(BUFF_HOME)]
  /\ BUFF_HOME' = BUFF_HOME
  /\ UNCHANGED <<manifest, metadata>>

\* ----------------------------------------------- bufflib registry::publish
PublishNew(p) ==
  /\ pc[p] = "idle"
  /\ \E env \in EnvValues : LoadAndConnect(p, "publish", env)

\* Mutant of PublishBuild: the manifest is consumed by the build.
PublishBuild_consume(p) ==
  /\ pc[p] = "connected" /\ cmd[p] = "publish"
  /\ PackageMetadata_ok(tree) /\ PackageMetadata_from_str_ok(manifest)
  /\ get_artifact_bytes_ok(tree)
  /\ tree' = [tree EXCEPT !.nodes = @ \ {<<"buff.toml">>}]
  /\ metadata' = [metadata EXCEPT ![p] = PackageMetadata_from_str(manifest)]
  /\ artifact_bytes' = [artifact_bytes EXCEPT ![p] = get_artifact_bytes(tree)]
  /\ pc' = [pc EXCEPT ![p] = "built"]
  /\ UNCHANGED <<file, missingDirs, saves, cmd, BUFF_REGISTRY_URL, found,
                 loadedAfter, config, registry_url, channel, sent, token, err>>
  /\ UNCHANGED <<tmpfiles, request, rpcs>>
  /\ UNCHANGED <<BUFF_HOME, location, manifest>>

\* PackageMetadata::new and get_artifact_bytes: each unwraps, so a
\* manifest that cannot be read or lacks a field of the struct panics, an
\* unreadable package directory panics, and a failing tempfile() or
\* read_to_end of the encoder panics ("io").
PublishBuild(p) ==
  /\ pc[p] = "connected" /\ cmd[p] = "publish"
  /\ IF ~(PackageMetadata_ok(tree) /\ PackageMetadata_from_str_ok(manifest))
     THEN /\ Panic(p, "manifest")
          /\ UNCHANGED <<metadata, artifact_bytes>>
     ELSE /\ metadata' = [metadata EXCEPT ![p] = PackageMetadata_from_str(manifest)]
          /\ \/ /\ Panic(p, "io")
                /\ artifact_bytes' = artifact_bytes
             \/ IF ~get_artifact_bytes_ok(tree)
                THEN /\ Panic(p, "build")
                     /\ artifact_bytes' = artifact_bytes
                ELSE /\ artifact_bytes' = [artifact_bytes EXCEPT ![p] = get_artifact_bytes(tree)]
                     /\ pc' = [pc EXCEPT ![p] = "built"]
                     /\ err' = err
  /\ UNCHANGED <<file, missingDirs, saves, cmd, BUFF_REGISTRY_URL, found,
                 loadedAfter, config, registry_url, channel, sent, token>>
  /\ UNCHANGED <<tree, tmpfiles, request, rpcs>>
  /\ UNCHANGED <<BUFF_HOME, location, manifest>>

\* artifact::save_artifact_to_path(target, "/tmp/abc"): the directory is
\* walked and archived again, and the result written to /tmp/abc.
PublishStage(p) ==
  /\ pc[p] = "built" /\ cmd[p] = "publish"
  /\ \/ /\ Panic(p, "io")
        /\ tmpfiles' = tmpfiles
     \/ IF ~get_artifact_bytes_ok(tree)
        THEN /\ Panic(p, "build")
             /\ tmpfiles' = tmpfiles
        ELSE \/ /\ tmpfiles' = [tmpfiles EXCEPT !["/tmp/abc"] =
                                  save_buffer_to_file(get_artifact_bytes(tree))]
                /\ pc' = [pc EXCEPT ![p] = "staged"]
                /\ err' = err
             \/ /\ Panic(p, "stage")
                /\ tmpfiles' = tmpfiles
  /\ UNCHANGED <<file, missingDirs, saves, cmd, BUFF_REGISTRY_URL, found,
                 loadedAfter, config, registry_url, channel, sent, token>>
  /\ UNCHANGED <<tree, artifact_bytes, request, rpcs>>
  /\ UNCHANGED <<BUFF_HOME, location, manifest, metadata>>

\* Mutant of PublishRpc: a failed Publish RPC is sent a second time.
PublishRpc_retry(p) ==
  /\ pc[p] = "staged" /\ cmd[p] = "publish"
  /\ request' = [request EXCEPT ![p] = PublishRequest(artifact_bytes[p])]
  /\ sent' = [sent EXCEPT ![p] = channel[p]]
  /\ \/ /\ rpcs' = [rpcs EXCEPT ![p] = @ + 1]
        /\ pc' = [pc EXCEPT ![p] = "done"]
        /\ err' = err
     \/ /\ rpcs' = [rpcs EXCEPT ![p] = @ + 2]
        /\ Panic(p, "rpc")
  /\ UNCHANGED <<file, missingDirs, saves, cmd, BUFF_REGISTRY_URL, found,
                 loadedAfter, config, registry_url, channel, token>>
  /\ UNCHANGED <<tree, tmpfiles, artifact_bytes>>
  /\ UNCHANGED <<BUFF_HOME, location>>
  /\ UNCHANGED <<manifest, metadata>>

\* client.publish(&req).expect("Failed gRPC publish call")
PublishRpc(p) ==
  /\ pc[p] = "staged" /\ cmd[p] = "publish"
  /\ request' = [request EXCEPT ![p] = PublishRequest(artifact_bytes[p])]
  /\ sent' = [sent EXCEPT ![p] = channel[p]]
  /\ rpcs' = [rpcs EXCEPT ![p] = @ + 1]
  /\ \/ /\ pc' = [pc EXCEPT ![p] = "done"]
        /\ err' = err
     \/ Panic(p, "rpc")
  /\ UNCHANGED <<file, missingDirs, saves, cmd, BUFF_REGISTRY_URL, found,
                 loadedAfter, config, registry_url, channel, token>>
  /\ UNCHANGED <<tree, tmpfiles, artifact_bytes>>
  /\ UNCHANGED <<BUFF_HOME, location>>
  /\ UNCHANGED <<manifest, metadata>>

\* ---------------------- callers of the manifest loaders (the two tests)
\* PackageMetadata::new(path) of bufflib
MetadataNew(p) ==
  /\ pc[p] = "idle"
  /\ cmd' = [cmd EXCEPT ![p] = "metadata_new"]
  /\ IF PackageMetadata_ok(tree) /\ PackageMetadata_from_str_ok(manifest)
     THEN /\ metadata' = [metadata EXCEPT ![p] = PackageMetadata_from_str(manifest)]
          /\ pc' = [pc EXCEPT ![p] = "done"]
          /\ err' = err
     ELSE /\ Panic(p, "manifest")
          /\ metadata' = metadata
  /\ UNCHANGED <<file, missingDirs, saves, BUFF_REGISTRY_URL, found,
                 loadedAfter, config, registry_url, channel, sent, token>>
  /\ UNCHANGED <<pkgvars, rpcs, BUFF_HOME, location, manifest>>

\* load_from_path(path) of the legacy package_metadata.rs
LoadFromPath(p) ==
  /\ pc[p] = "idle"
  /\ cmd' = [cmd EXCEPT ![p] = "load_from_path"]
  /\ IF PackageMetadata_ok(tree) /\ load_from_path_ok(manifest)
     THEN /\ metadata' = [metadata EXCEPT ![p] = load_from_path(manifest)]
          /\ pc' = [pc EXCEPT ![p] = "done"]
          /\ err' = err
     ELSE /\ Panic(p, "manifest")
          /\ metadata' = metadata
  /\ UNCHANGED <<file, missingDirs, saves, BUFF_REGISTRY_URL, found,
                 loadedAfter, config, registry_url, channel, sent, token>>
  /\ UNCHANGED <<pkgvars, rpcs, BUFF_HOME, location, manifest>>

\* ------------------------- a caller of the artifact functions (the tests)
ArtifactSession == 2

\* save_artifact_to_path(path, output_path) of bufflib
SaveArtifact(p) ==
  /\ pc[p] = "idle"
  /\ cmd' = [cmd EXCEPT ![p] = "save_artifact"]
  /\ \/ /\ Panic(p, "io")
        /\ UNCHANGED <<artifact_bytes, tmpfiles>>
     \/ IF get_artifact_bytes_ok(tree)
        THEN /\ artifact_bytes' = [artifact_bytes EXCEPT ![p] = get_artifact_bytes(tree)]
             /\ tmpfiles' = [tmpfiles EXCEPT !["/tmp/test_artifact.tar.gz"] =
                               save_buffer_to_file(get_artifact_bytes(tree))]
             /\ pc' = [pc EXCEPT ![p] = "done"]
             /\ err' = err
        ELSE /\ Panic(p, "build")
             /\ UNCHANGED <<artifact_bytes, tmpfiles>>
  /\ UNCHANGED <<file, missingDirs, saves, BUFF_REGISTRY_URL, found,
                 loadedAfter, config, registry_url, channel, sent, token>>
  /\ UNCHANGED <<tree, request, rpcs>>
  /\ UNCHANGED <<BUFF_HOME, location>>
  /\ UNCHANGED <<manifest, metadata>>

\* create_artifact(path, output_path) of the legacy artifact.rs
CreateArtifact(p) ==
  /\ pc[p] = "idle"
  /\ cmd' = [cmd EXCEPT ![p] = "create_artifact"]
  /\ \/ /\ Panic(p, "io")
        /\ UNCHANGED <<artifact_bytes, tmpfiles>>
     \/ IF create_artifact_ok(tree)
        THEN /\ artifact_bytes' = [artifact_bytes EXCEPT ![p] = create_artifact(tree)]
             /\ tmpfiles' = [tmpfiles EXCEPT !["/tmp/test_artifact.tar.gz"] =
                               save_buffer_to_file(create_artifact(tree))]
             /\ pc' = [pc EXCEPT ![p] = "done"]
             /\ err' = err
        ELSE /\ Panic(p, "build")
             /\ UNCHANGED <<artifact_bytes, tmpfiles>>
  /\ UNCHANGED <<file, missingDirs, saves, BUFF_REGISTRY_URL, found,
                 loadedAfter, config, registry_url, channel, sent, token>>
  /\ UNCHANGED <<tree, request, rpcs>>
  /\ UNCHANGED <<BUFF_HOME, location>>
  /\ UNCHANGED <<manifest, metadata>>

\* ------------------------------- legacy src/bin/buff/commands/login.rs
\* Settings::new().unwrap(), then get_jwt_token: the Login RPC goes to the
\* url of the settings files, before the store is loaded.
ExecuteRpc(p) ==
  /\ pc[p] = "idle"
  /\ cmd' = [cmd EXCEPT ![p] = "execute"]
  /\ \/ /\ Panic(p, "settings")
        /\ UNCHANGED <<registry_url, channel, sent, token, rpcs>>
     \/ \E url \in URLs :
          /\ registry_url' = [registry_url EXCEPT ![p] = url]
          /\ channel' = [channel EXCEPT ![p] = url]
          /\ sent' = [sent EXCEPT ![p] = url]
          /\ rpcs' = [rpcs EXCEPT ![p] = @ + 1]
          /\ \/ \E t \in Tokens :
                  /\ token' = [token EXCEPT ![p] = t]
                  /\ pc' = [pc EXCEPT ![p] = "replied"]
                  /\ err' = err
             \/ /\ Panic(p, "rpc")
                /\ token' = token
  /\ UNCHANGED <<file, missingDirs, saves, BUFF_REGISTRY_URL, found,
                 loadedAfter, config>>
  /\ UNCHANGED pkgvars
  /\ UNCHANGED <<BUFF_HOME, location>>
  /\ UNCHANGED <<manifest, metadata>>

\* let mut config = BuffCliConfig::new();   (the legacy store)
ExecuteNew(p) ==
  /\ pc[p] = "replied" /\ cmd[p] = "execute"
  /\ found' = [found EXCEPT ![p] = file.exists]
  /\ loadedAfter' = [loadedAfter EXCEPT ![p] = Len(saves)]
  /\ IF legacy_new_ok(file)
     THEN /\ config' = [config EXCEPT ![p] = legacy_new(file)]
          /\ pc' = [pc EXCEPT ![p] = "loaded"]
          /\ err' = err
     ELSE /\ Panic(p, "parse")
          /\ config' = config
  /\ UNCHANGED <<file, missingDirs, saves, cmd, BUFF_REGISTRY_URL,
                 registry_url, channel, sent, token>>
  /\ UNCHANGED <<pkgvars, rpcs>>
  /\ location' = [location EXCEPT ![p].load = legacy_get_config_path(BUFF_HOME)]
  /\ BUFF_HOME' = BUFF_HOME
  /\ UNCHANGED <<manifest, metadata>>

\* config.add_registry(registry_url, &token); config.save();
ExecuteSave(p) ==
  /\ pc[p] = "loaded" /\ cmd[p] = "execute"
  /\ config' = [config EXCEPT ![p] = add_registry(config[p], registry_url[p], token[p])]
  /\ IF save_ok(missingDirs)
     THEN /\ Write(p, legacy_save(config'[p]))
          /\ pc' = [pc EXCEPT ![p] = "done"]
          /\ err' = err
     ELSE /\ Panic(p, "save")
          /\ UNCHANGED <<file, missingDirs, saves>>
  /\ UNCHANGED <<cmd, BUFF_REGISTRY_URL, found, loadedAfter, registry_url,
                 channel, sent, token>>
  /\ UNCHANGED <<pkgvars, rpcs>>
  /\ location' = [location EXCEPT ![p].save = legacy_get_config_path(BUFF_HOME)]
  /\ BUFF_HOME' = BUFF_HOME
  /\ UNCHANGED <<manifest, metadata>>

\* ------------------------- a caller of the store API (should_save, should_new)
ApiSession == 1

\* let mut config = BuffCliConfig::new();
ApiNew(p) ==
  /\ pc[p] \in {"idle", "loaded", "saved"}
  /\ cmd' = [cmd EXCEPT ![p] = "api"]
  /\ found' = [found EXCEPT ![p] = file.exists]
  /\ \E env \in EnvValues :
       /\ BUFF_REGISTRY_URL' = [BUFF_REGISTRY_URL EXCEPT ![p] = env]
       /\ IF new_ok(file)
          THEN /\ config' = [config EXCEPT ![p] = new(file, env)]
               /\ pc' = [pc EXCEPT ![p] = "loaded"]
               /\ err' = err
          ELSE /\ Panic(p, "parse")
               /\ config' = config
  /\ UNCHANGED <<file, missingDirs, saves, loadedAfter, registry_url,
                 channel, sent, token>>
  /\ UNCHANGED <<pkgvars, rpcs>>
  /\ location' = [location EXCEPT ![p].load = get_config_path(BUFF_HOME)]
  /\ BUFF_HOME' = BUFF_HOME
  /\ UNCHANGED <<manifest, metadata>>

\* config.add_registry(url, token);
ApiAddRegistry(p, url, tok) ==
  /\ pc[p] \in {"loaded", "saved"} /\ cmd[p] = "api"
  /\ config' = [config EXCEPT ![p] = add_registry(config[p], url, tok)]
  /\ pc' = [pc EXCEPT ![p] = "loaded"]
  /\ UNCHANGED <<file, missingDirs, saves, cmd, BUFF_REGISTRY_URL, found,
                 loadedAfter, registry_url, channel, sent, token, err>>
  /\ UNCHANGED <<pkgvars, rpcs>>
  /\ UNCHANGED <<BUFF_HOME, location>>
  /\ UNCHANGED <<manifest, metadata>>

\* config.save();   pc "saved": the store in memory is the one on disk.
ApiSave(p) ==
  /\ pc[p] \in {"loaded", "saved"} /\ cmd[p] = "api"
  /\ IF save_ok(missingDirs)
     THEN /\ file' = save(config[p])
          /\ missingDirs' = 0
          /\ pc' = [pc EXCEPT ![p] = "saved"]
          /\ err' = err
     ELSE /\ Panic(p, "save")
          /\ UNCHANGED <<file, missingDirs>>
  /\ UNCHANGED <<saves, cmd, BUFF_REGISTRY_URL, found, loadedAfter, config,
                 registry_url, channel, sent, token>>
  /\ UNCHANGED <<pkgvars, rpcs>>
  /\ location' = [location EXCEPT ![p].save = get_config_path(BUFF_HOME)]
  /\ BUFF_HOME' = BUFF_HOME
  /\ UNCHANGED <<manifest, metadata>>

\* ------------------------------------------------------------ specification
Next ==
  \/ \E p \in Procs : LoginNew(p)
  \/ \E p \in Procs : LoginRpc(p)
  \/ \E p \in Procs : LoginSave(p)
  \/ \E p \in Procs : PublishNew(p)
  \/ \E p \in Procs : PublishBuild(p)
  \/ \E p \in Procs : PublishStage(p)
  \/ \E p \in Procs : PublishRpc(p)
  \/ \E p \in Procs : ExecuteRpc(p)
  \/ \E p \in Procs : ExecuteNew(p)
  \/ \E p \in Procs : ExecuteSave(p)

Spec == Init /\ [][Next]_vars

NextApi ==
  \/ ApiNew(ApiSession)
  \/ \E url \in URLs, tok \in Tokens : ApiAddRegistry(ApiSession, url, tok)
  \/ ApiSave(ApiSession)

SpecApi == Init /\ [][NextApi]_vars

PublishSession == 1

NextPublish ==
  \/ PublishNew(PublishSession)
  \/ PublishBuild(PublishSession)
  \/ PublishStage(PublishSession)
  \/ PublishRpc(PublishSession)
  \/ SaveArtifact(ArtifactSession)
  \/ CreateArtifact(ArtifactSession)

SpecPublish == InitPublish /\ [][NextPublish]_vars

\* The two manifest loaders over every manifest document.
InitManifest ==
  /\ file = NoFile
  /\ missingDirs = 0
  /\ saves = <<>>
  /\ pc = [p \in Procs |-> "idle"]
  /\ cmd = [p \in Procs |-> "none"]
  /\ BUFF_REGISTRY_URL = [p \in Procs |-> Unset]
  /\ found = [p \in Procs |-> FALSE]
  /\ loadedAfter = [p \in Procs |-> 0]
  /\ config = [p \in Procs |-> NoConfig]
  /\ registry_url = [p \in Procs |-> ""]
  /\ channel = [p \in Procs |-> ""]
  /\ sent = [p \in Procs |-> ""]
  /\ token = [p \in Procs |-> ""]
  /\ err = [p \in Procs |-> ""]
  /\ tree = DemoTree
  /\ tmpfiles = [f \in TmpPaths |-> NoTmpFile]
  /\ artifact_bytes = [p \in Procs |-> NoBytes]
  /\ request = [p \in Procs |-> NoRequest]
  /\ rpcs = [p \in Procs |-> 0]
  /\ BUFF_HOME = NoHome
  /\ location = [p \in Procs |-> NoLocation]
  /\ manifest \in Manifests
  /\ metadata = [p \in Procs |-> NoMetadata]

NextManifest ==
  \/ \E p \in Procs : MetadataNew(p)
  \/ \E p \in Procs : LoadFromPath(p)

SpecManifest == InitManifest /\ [][NextManifest]_vars

\* A caller of the bufflib store and a legacy login, under every value
\* of BUFF_HOME.
InitHome ==
  /\ file \in PublishFiles
  /\ missingDirs \in 0..MaxMissingDirs
  /\ file.exists => missingDirs = 0
  /\ saves = <<>>
  /\ pc = [p \in Procs |-> "idle"]
  /\ cmd = [p \in Procs |-> "none"]
  /\ BUFF_REGISTRY_URL = [p \in Procs |-> Unset]
  /\ found = [p \in Procs |-> FALSE]
  /\ loadedAfter = [p \in Procs |-> 0]
  /\ config = [p \in Procs |-> NoConfig]
  /\ registry_url = [p \in Procs |-> ""]
  /\ channel = [p \in Procs |-> ""]
  /\ sent = [p \in Procs |-> ""]
  /\ token = [p \in Procs |-> ""]
  /\ err = [p \in Procs |-> ""]
  /\ tree = DemoTree
  /\ tmpfiles = [f \in TmpPaths |-> NoTmpFile]
  /\ artifact_bytes = [p \in Procs |-> NoBytes]
  /\ request = [p \in Procs |-> NoRequest]
  /\ rpcs = [p \in Procs |-> 0]
  /\ BUFF_HOME \in HomeValues
  /\ location = [p \in Procs |-> NoLocation]
  /\ manifest = DemoManifest
  /\ metadata = [p \in Procs |-> NoMetadata]

LegacySession == 2

\* config.add_registry(url, token) with the values of should_save.
NextHome ==
  \/ ApiNew(ApiSession)
  \/ ApiAddRegistry(ApiSession, "localhost:50051", "newtoken")
  \/ ApiSave(ApiSession)
  \/ ExecuteRpc(LegacySession)
  \/ ExecuteNew(LegacySession)
  \/ ExecuteSave(LegacySession)

SpecHome == InitHome /\ [][NextHome]_vars

\* ------------------------------------------------------------------ claims
\* The credential a store holds for a URL: {} when absent.
Cred(c, u) == {e[2] : e \in {x \in c.registries : x[1] = u}}

ApiLoaded(p) == pc[p] \in {"loaded", "saved"} /\ cmd[p] = "api"

\* C1: credential store round trip.  For every store the API session can
\* hold (after any number of add_registry calls), every URL u and token t:
\* add_registry(u, t); save(); new() gives a store whose credential for u
\* is t and whose entries are exactly those in memory at save time; and
\* every save step the session takes writes a file that loads back to the
\* store in memory.
RoundTripInv ==
  ApiLoaded(ApiSession) =>
    \A u \in URLs, t \in Tokens, env \in EnvValues :
      LET c2 == add_registry(config[ApiSession], u, t)
          f == save(c2)
      IN /\ new_ok(f)
         /\ Cred(new(f, env), u) = {t}
         /\ new(f, env).registries = c2.registries
         /\ new(f, env).preferred_registry = c2.preferred_registry

RoundTripStep ==
  (ApiSave(ApiSession) /\ pc'[ApiSession] = "saved") =>
    /\ new_ok(file')
    /\ \A env \in EnvValues : new(file', env) = config[ApiSession]

ThmC1 == []RoundTripInv /\ [][RoundTripStep]_vars

\* The session loaded with no file, added credentials for more than one
\* URL and saved.
WitC1 ==
  /\ pc[ApiSession] = "saved"
  /\ ~found[ApiSession] /\ file.exists
  /\ Cardinality(Keys(config[ApiSession].registries)) >= 2
  /\ RegsOf(file.text) = config[ApiSession].registries

\* C2: credential store isolation.  Every add_registry(u1, t) step leaves
\* the credential of every other URL u2 (present or absent) and
\* preferred_registry as they were.
IsolationStep ==
  \A u1 \in URLs, t \in Tokens :
    ApiAddRegistry(ApiSession, u1, t) =>
      /\ \A u2 \in URLs \ {u1} :
           Cred(config'[ApiSession], u2) = Cred(config[ApiSession], u2)
      /\ config'[ApiSession].preferred_registry = config[ApiSession].preferred_registry

ThmC2 == [][IsolationStep]_vars

\* Credentials for two URLs were added, one after the other, to a store
\* that started empty.
WitC2 ==
  /\ pc[ApiSession] = "loaded" /\ cmd[ApiSession] = "api"
  /\ ~found[ApiSession] /\ ~file.exists
  /\ Cardinality(Keys(config[ApiSession].registries)) >= 2

\* C5: add_registry inserts or overwrites and is idempotent.  After every
\* add_registry(u, t) step the store holds exactly the credential t for u,
\* a second call with the same arguments changes nothing, and no store
\* ever holds two credentials for one URL.
InsertStep ==
  \A u \in URLs, t \in Tokens :
    ApiAddRegistry(ApiSession, u, t) =>
      /\ Cred(config'[ApiSession], u) = {t}
      /\ add_registry(config'[ApiSession], u, t) = config'[ApiSession]
      /\ Cardinality(config'[ApiSession].registries) <=
           Cardinality(config[ApiSession].registries) + 1
      /\ (Cred(config[ApiSession], u) # {} =>
           Cardinality(config'[ApiSession].registries) =
             Cardinality(config[ApiSession].registries))

OneCredentialPerUrl == \A p \in Procs : IsMap(config[p].registries)

ThmC5 == []OneCredentialPerUrl /\ [][InsertStep]_vars

\* A store that started empty holds a credential for every URL.
WitC5 ==
  /\ pc[ApiSession] = "loaded" /\ cmd[ApiSession] = "api"
  /\ ~found[ApiSession] /\ ~file.exists
  /\ Keys(config[ApiSession].registries) = URLs
  /\ Cardinality(config[ApiSession].registries) = NumUrls

\* C8: initial load with no persisted file.  A new() step taken while no
\* file exists gives an empty registry mapping and a preferred_registry
\* equal to BUFF_REGISTRY_URL when it is set, else localhost:50051, and
\* creates neither the file nor its directory.
InitialLoadStep ==
  (ApiNew(ApiSession) /\ ~file.exists) =>
    /\ pc'[ApiSession] = "loaded"
    /\ config'[ApiSession].registries = {}
    /\ config'[ApiSession].preferred_registry =
         (IF BUFF_REGISTRY_URL'[ApiSession] # Unset
          THEN BUFF_REGISTRY_URL'[ApiSession] ELSE "localhost:50051")
    /\ file' = file /\ missingDirs' = missingDirs

Savers == {saves[i] : i \in 1..Len(saves)}

\* C3: login failure does not mutate the credential store.  The step in
\* which a Login RPC fails changes neither the file nor its directory, an
\* invocation whose RPC failed has panicked and never saves, and every
\* change of the file is the save of an invocation whose RPC succeeded.
RpcFailureStep ==
  \A p \in Procs :
    (err'[p] = "rpc" /\ err[p] # "rpc") =>
      /\ file' = file /\ missingDirs' = missingDirs
      /\ pc'[p] = "panicked"

OnlySuccessWrites ==
  (file' # file \/ missingDirs' # missingDirs) =>
    \E p \in Procs :
      /\ saves' = Append(saves, p)
      /\ cmd[p] \in {"login", "execute"}
      /\ token[p] \in Tokens
      /\ err[p] = "" /\ err'[p] = ""

FailedNeverSaves ==
  \A p \in Procs : err[p] = "rpc" => pc[p] = "panicked" /\ p \notin Savers

ThmC3 ==
  /\ []FailedNeverSaves
  /\ [][RpcFailureStep /\ OnlySuccessWrites]_vars

\* A login whose RPC failed, started with no file: there is still none.
WitC3 ==
  \E p \in Procs :
    /\ cmd[p] = "login" /\ err[p] = "rpc" /\ sent[p] # ""
    /\ ~found[p] /\ ~file.exists /\ saves = <<>>

\* C4: login success persists the token.  When the save step of a login
\* whose RPC to endpoint e returned t completes, the persisted document
\* parses and holds exactly the credential t for e; when the login found
\* no file at load, that is the only credential in it.
LoginPersistsStep ==
  \A p \in Procs :
    (LoginSave(p) /\ pc'[p] = "done") =>
      /\ file'.exists /\ from_str_ok(file'.text)
      /\ Cred(from_str(file'.text), sent[p]) = {token[p]}
      /\ (~found[p] =>
           from_str(file'.text).registries = {<<sent[p], token[p]>>})

ThmC4 == [][LoginPersistsStep]_vars

\* A login that started from an empty configuration directory has
\* returned and the file holds its one credential.
WitC4 ==
  \E p \in Procs :
    /\ cmd[p] = "login" /\ pc[p] = "done" /\ ~found[p]
    /\ saves = <<p>>
    /\ RegsOf(file.text) = {<<sent[p], token[p]>>}

\* C6: save() overwrites wholesale.  After every save step the persisted
\* document parses back to exactly the store in memory, and every entry
\* that was in the file before the save and is not in memory is gone.
OverwriteStep ==
  \A p \in Procs :
    ((LoginSave(p) \/ ExecuteSave(p)) /\ pc'[p] = "done") =>
      /\ RegsOf(file'.text) = config'[p].registries
      /\ cmd[p] = "login" =>
           from_str_ok(file'.text) /\ from_str(file'.text) = config'[p]
      /\ cmd[p] = "execute" =>
           legacy_from_str_ok(file'.text) /\ legacy_from_str(file'.text) = config'[p]
      /\ \A e \in RegsOf(file.text) \ config'[p].registries :
           e \notin RegsOf(file'.text)

ThmC6 == [][OverwriteStep]_vars

\* Login q saved its credential after login p had loaded; p saved later
\* and the credential is no longer in the file.
WitC6 ==
  \E p, q \in Procs :
    /\ p # q /\ cmd[p] = "login" /\ cmd[q] \in {"login", "execute"}
    /\ saves = <<q, p>> /\ loadedAfter[p] = 0
    /\ registry_url[q] # registry_url[p]
    /\ <<registry_url[q], token[q]>> \notin RegsOf(file.text)

\* C7: no locking between invocations.  Whenever two logins for distinct
\* endpoints have both loaded before either saved, the file is the store
\* of the one that saved last (when they started without a file it holds
\* that one credential only); and every step of a login is enabled
\* whatever the other invocation is doing.
LostUpdate ==
  \A p, q \in Procs :
    (/\ p # q /\ cmd[p] = "login" /\ cmd[q] = "login"
     /\ pc[p] = "done" /\ pc[q] = "done"
     /\ loadedAfter[p] = 0 /\ loadedAfter[q] = 0
     /\ saves = <<q, p>>
     /\ registry_url[p] # registry_url[q]) =>
       /\ file.text = to_string(config[p])
       /\ ~found[p] => RegsOf(file.text) = {<<registry_url[p], token[p]>>}

NoWait ==
  \A p \in Procs :
    /\ pc[p] = "idle" => ENABLED LoginNew(p)
    /\ (pc[p] = "connected" /\ cmd[p] = "login") => ENABLED LoginRpc(p)
    /\ (pc[p] = "replied" /\ cmd[p] = "login") => ENABLED LoginSave(p)

ThmC7 == LostUpdate /\ NoWait

\* Two logins for distinct endpoints, started without a file, both loaded
\* before either saved: the first saver's credential is lost.
WitC7 ==
  \E p, q \in Procs :
    /\ p # q /\ cmd[p] = "login" /\ cmd[q] = "login"
    /\ pc[p] = "done" /\ pc[q] = "done"
    /\ loadedAfter[p] = 0 /\ loadedAfter[q] = 0
    /\ ~found[p] /\ ~found[q]
    /\ saves = <<q, p>>
    /\ registry_url[p] # registry_url[q]
    /\ Cred(BuffCliConfig("", RegsOf(file.text)), registry_url[q]) = {}

\* C9: a persisted document that cannot be parsed is fatal: every
\* invocation that panics at the store load has opened no channel and sent
\* no RPC.
C9Original ==
  \A p \in Procs : err[p] = "parse" => channel[p] = "" /\ sent[p] = ""

\* C10: active registry resolution.  The endpoint a bufflib login or
\* publish sends its RPC to is the preferred_registry of the store it
\* loaded, which is the one of the persisted document when the file
\* exists (whatever BUFF_REGISTRY_URL says) and else BUFF_REGISTRY_URL
\* or, when that is not set, localhost:50051.
Resolved(p) ==
  IF found[p] THEN config[p].preferred_registry
  ELSE IF BUFF_REGISTRY_URL[p] # Unset THEN BUFF_REGISTRY_URL[p]
  ELSE "localhost:50051"

SentToResolved ==
  \A p \in Procs :
    (cmd[p] \in {"login", "publish"} /\ sent[p] # "") =>
      /\ sent[p] = Resolved(p)
      /\ sent[p] = channel[p] /\ sent[p] = registry_url[p]

DocumentWinsStep ==
  \A p \in Procs :
    ((LoginNew(p) \/ PublishNew(p)) /\ file.exists /\ pc'[p] = "connected") =>
      PrefLines(file.text) = {PrefLine(channel'[p])}

ThmC10 == []SentToResolved /\ [][DocumentWinsStep]_vars

\* A publish sent its RPC to the document's preferred_registry although
\* BUFF_REGISTRY_URL named another endpoint.
WitC10 ==
  \E p \in Procs :
    /\ cmd[p] = "publish" /\ sent[p] # "" /\ found[p]
    /\ BUFF_REGISTRY_URL[p] \notin {Unset, sent[p]}
    /\ sent[p] = config[p].preferred_registry

\* The invocations of publish that have sent their Publish RPC.
PublishSent(p) == cmd[p] = "publish" /\ rpcs[p] > 0

\* C11: publish requires and uses the stored credential.  Every Publish RPC
\* that is sent carries the token the store holds for the target registry,
\* and with no credential for it nothing is sent.  publish() reads no
\* credential: the request carries the artifact only and is sent whether
\* or not the store holds a token, so this statement is violated.
C11Original ==
  \A p \in Procs :
    PublishSent(p) =>
      /\ Cred(config[p], registry_url[p]) # {}
      /\ request[p].token \in Cred(config[p], registry_url[p])


\* What the walker reaches: the paths with no hidden or ignored name on
\* the way down to them.
Reached(t, n) ==
  /\ n \in t.nodes
  /\ \A i \in 1..Len(n) : ~Filtered(t, SubSeq(n, 1, i))

\* The root is missing, or the root or something reached cannot be opened.
TraversalFails(t) ==
  \/ ~t.exists
  \/ \E n \in t.unreadable : n = Root \/ Reached(t, n)

EntryNames(bytes) == {GzDecode(bytes)[i].name : i \in 1..Len(GzDecode(bytes))}

\* The invocations of publish stopped before the Publish RPC.
PublishAborted(p) ==
  cmd[p] = "publish" /\ err[p] \in {"parse", "manifest", "io", "build", "stage"}

\* C12: no publish with a partial archive.  A Publish RPC is sent only for
\* a directory whose traversal and archiving met no failure, with the
\* archive of everything reached as its payload; a publish stopped by a
\* failure of the traversal, the archive or the compression has sent no
\* RPC, and the step that builds over a failing directory panics.
NoPartialPublish ==
  \A p \in Procs :
    PublishSent(p) =>
      /\ ~TraversalFails(tree)
      /\ EntryNames(request[p].artifact) = {CurDir} \cup {n \in tree.nodes : Reached(tree, n)}

AbortedNeverSends ==
  \A p \in Procs : PublishAborted(p) => rpcs[p] = 0 /\ request[p] = NoRequest

BuildAbortStep ==
  \A p \in Procs :
    PublishBuild(p) /\ TraversalFails(tree) => pc'[p] = "panicked" /\ rpcs' = rpcs

ThmC12 == [](NoPartialPublish /\ AbortedNeverSends) /\ [][BuildAbortStep]_vars

WitC12 ==
  \E p \in Procs :
    /\ cmd[p] = "publish" /\ err[p] = "build" /\ rpcs[p] = 0
    /\ tree.exists /\ <<"src", "main.txt">> \in tree.unreadable

\* A directory below the root that the walker reaches cannot be listed,
\* and nothing else is wrong with the tree.
PermissionOnSubtree(t) ==
  /\ t.exists /\ t.unreadable # {}
  /\ \A n \in t.unreadable : n \in DirPaths /\ Reached(t, n)

\* C13: permission-error policy during traversal.  A permission error on
\* a subtree of the package root is skipped and the walk continues, so
\* archive construction by bufflib is not aborted by it.  create_tar
\* unwraps every item of the walk, the error item of such a directory
\* included, so this statement is violated.
C13Original ==
  \A p \in Procs :
    cmd[p] \in {"publish", "save_artifact"} /\ PermissionOnSubtree(tree)
      => err[p] # "build"

\* Decompress and unpack: the (relative path, content) pairs of the file
\* entries.
Unpack(bytes) ==
  {<<GzDecode(bytes)[i].name, GzDecode(bytes)[i].content>> :
     i \in {j \in 1..Len(GzDecode(bytes)) : GzDecode(bytes)[j].kind = "file"}}

\* A pattern of the .gitignore matches the path or a directory above it.
IgnoreMatched(t, n) == \E i \in 1..Len(n) : n[i] \in t.patterns

\* The invocations that hold an archive built by bufflib.
BuiltByBufflib(p) ==
  \/ cmd[p] = "save_artifact" /\ pc[p] = "done"
  \/ cmd[p] = "publish" /\ pc[p] \in {"built", "staged", "done"}

\* C14: archive round trip.  For every directory tree T, decompressing and
\* unpacking get_artifact_bytes(T) gives the regular files of T minus the
\* paths matched by ignore rules, nothing missing and nothing added.
\* ignore::Walk::new also passes over hidden files that no ignore rule
\* matches, so this statement is violated.
C14Original ==
  \A p \in Procs :
    BuiltByBufflib(p) =>
      Unpack(artifact_bytes[p]) =
        {<<n, FileContent(n)>> : n \in {f \in RegularFiles(tree) : ~IgnoreMatched(tree, f)}}

\* C15: ignore rule.  A path matched by an ignore pattern declared at an
\* ancestor level is absent from the archive bufflib produces, and so is
\* every descendant of a matched directory.
ThmC15 ==
  \A p \in Procs :
    BuiltByBufflib(p) =>
      \A n \in tree.nodes :
        IgnoreMatched(tree, n) => n \notin EntryNames(artifact_bytes[p])

WitC15 ==
  \E p \in Procs :
    /\ BuiltByBufflib(p)
    /\ tree.patterns = {"target"}
    /\ {<<"target">>, <<"target", "out.bin">>, <<"src", "main.txt">>} \subseteq tree.nodes
    /\ <<"src", "main.txt">> \in EntryNames(artifact_bytes[p])

\* C16: end-to-end publish payload.  For a package directory holding only
\* buff.toml and src/main.txt ("hi") and no ignore files, the archive that
\* publish sends, decompressed, holds exactly one file entry, src/main.txt
\* with content "hi".  publish() archives the directory the manifest is
\* in, so buff.toml is a second file entry and this statement is violated.
C16Original ==
  \A p \in Procs :
    PublishSent(p) /\ tree = DemoTree =>
      Unpack(request[p].artifact) = {<< <<"src", "main.txt">>, "hi" >>}

\* The invocations that hold an archive, whichever create_tar wrote it.
HoldsArchive(p) ==
  BuiltByBufflib(p) \/ (cmd[p] = "create_artifact" /\ pc[p] = "done")

RootRelative(t, name) ==
  /\ \A i \in 1..Len(name) : name[i] # ".."
  /\ ~IsPrefix(t.at, name)
  /\ name = CurDir \/ name \in t.nodes

\* C17: archive entry names are root-relative.  Every entry written by
\* either create_tar is named by its path below the package root, without
\* a ".." segment or the root prefix, and the root itself is the entry
\* "./".  The legacy create_tar names entries by the walked path, root
\* prefix included, so this statement is violated.
C17Original ==
  \A p \in Procs :
    HoldsArchive(p) =>
      /\ \A name \in EntryNames(artifact_bytes[p]) : RootRelative(tree, name)
      /\ GzDecode(artifact_bytes[p])[1].name = CurDir

EmptyRoot(t) == t.exists /\ t.nodes = {} /\ t.unreadable = {}

\* C18: empty root.  For a package root that exists and has no content,
\* the archive bufflib writes holds exactly one entry, the directory entry
\* "./" of the root itself, and building it over such a root does not
\* fail on the tree.
OnlyTheRoot ==
  \A p \in Procs :
    cmd[p] = "save_artifact" /\ pc[p] = "done" /\ EmptyRoot(tree) =>
      /\ GzDecode(artifact_bytes[p]) = <<[name |-> CurDir, kind |-> "dir", content |-> ""]>>
      /\ tmpfiles["/tmp/test_artifact.tar.gz"] = save_buffer_to_file(artifact_bytes[p])

EmptyRootStep ==
  \A p \in Procs : SaveArtifact(p) /\ EmptyRoot(tree) => err'[p] # "build"

ThmC18 == []OnlyTheRoot /\ [][EmptyRootStep]_vars

WitC18 ==
  \E p \in Procs :
    /\ cmd[p] = "save_artifact" /\ pc[p] = "done" /\ EmptyRoot(tree)
    /\ Len(GzDecode(artifact_bytes[p])) = 1

\* C19: single exchange, no retry.  Every login sends at most one Login
\* RPC and every publish at most one Publish RPC; an invocation whose RPC
\* failed has sent exactly one and sends nothing more; and the RPC step
\* leaves nothing behind on disk that a later invocation could resume
\* from.
AtMostOneRpc == \A p \in Procs : rpcs[p] <= 1

FailedSentOnce == \A p \in Procs : err[p] = "rpc" => rpcs[p] = 1 /\ pc[p] = "panicked"

NoResendStep ==
  \A p \in Procs : pc[p] = "panicked" => pc'[p] = "panicked" /\ rpcs'[p] = rpcs[p]

NothingKeptStep ==
  \A p \in Procs :
    LoginRpc(p) \/ PublishRpc(p) =>
      /\ rpcs'[p] = rpcs[p] + 1
      /\ UNCHANGED <<file, missingDirs, saves, tmpfiles, tree>>

ThmC19 ==
  /\ [](AtMostOneRpc /\ FailedSentOnce)
  /\ [][NoResendStep /\ NothingKeptStep]_vars

WitC19 ==
  \E p, q \in Procs :
    /\ cmd[p] = "login" /\ err[p] = "rpc" /\ rpcs[p] = 1
    /\ cmd[q] = "publish" /\ err[q] = "rpc" /\ rpcs[q] = 1

\* C20: the credential store is mutated only by a successful login.  No
\* step of a publish, failing or not, changes the credential file, its
\* directory or the package directory with its manifest; and a login
\* changes its store in memory only in the step that saves it, so a login
\* that is done has written the store it holds.  A step of a publish is
\* one after which the invocation is a publish and its position differs.
PublishFrameStep ==
  \A p \in Procs :
    cmd'[p] = "publish" /\ <<pc'[p], cmd'[p]>> # <<pc[p], cmd[p]>> =>
      UNCHANGED <<file, missingDirs, saves, tree, manifest>>

MutationIsSavedStep ==
  \A p \in Procs :
    cmd[p] = "login" /\ config'[p] # config[p] =>
      \/ pc'[p] = "done" /\ file' = save(config'[p]) /\ saves' = Append(saves, p)
      \/ pc'[p] = "panicked" /\ err'[p] = "save"

PublishNeverSaved == \A p \in Procs : cmd[p] = "publish" => p \notin Savers

ThmC20 == []PublishNeverSaved /\ [][PublishFrameStep /\ MutationIsSavedStep]_vars

WitC20 ==
  \E p, q \in Procs :
    /\ cmd[p] = "publish" /\ pc[p] = "done"
    /\ cmd[q] = "login" /\ pc[q] = "done" /\ file = save(config[q])
    /\ tree = DemoTree

\* C21: the compressed artifact is transient.  Once a publish invocation
\* has completed, no local staging file holds a copy of its compressed
\* artifact.  publish() writes the archive to /tmp/abc and never removes
\* it, so this statement is violated.
C21Original ==
  \A p \in Procs :
    cmd[p] = "publish" /\ pc[p] = "done" =>
      \A f \in TmpPaths :
        ~(tmpfiles[f].exists /\ tmpfiles[f].bytes = artifact_bytes[p])

\* The file the store is to live in, by the precedence of the locations.
ExpectedLocation(home) ==
  IF home.set THEN Resolve(home.dir \o <<"config.toml">>)
  ELSE config_dir \o <<"buff", "config.toml">>

\* C22: configuration location precedence.  With BUFF_HOME set, load and
\* save both use <BUFF_HOME>/config.toml and never the platform directory;
\* with it unset both use <platform config dir>/buff/config.toml; load and
\* save of one process resolve to the same file.  get_config_path takes
\* every failure of env::var for "not set", so a BUFF_HOME whose value is
\* not valid Unicode sends load and save to the platform directory and
\* this statement is violated.
C22Original ==
  \A p \in Procs :
    /\ location[p].load # NoPath => Resolve(location[p].load) = ExpectedLocation(BUFF_HOME)
    /\ location[p].save # NoPath => Resolve(location[p].save) = ExpectedLocation(BUFF_HOME)
    /\ (location[p].load # NoPath /\ location[p].save # NoPath =>
          Resolve(location[p].load) = Resolve(location[p].save))

\* C23: save() creates missing parent directories.  Whatever the number
\* of directory levels missing above the configured location, save()
\* creates them and writes the document, so a save to a writable location
\* does not fail.  save() calls create_dir, which makes one level only,
\* so with two levels missing it panics and this statement is violated.
C23Original ==
  \A p \in Procs : cmd[p] = "api" => err[p] # "save"

\* The dependencies a loaded PackageMetadata holds, none when the struct
\* has no such field.
DependenciesOf(md) ==
  IF "dependencies" \in DOMAIN md THEN md.dependencies ELSE {}

ManifestLoaders == {"metadata_new", "load_from_path"}

\* C24: manifest loading.  A manifest with a complete package section
\* loads, with or without a dependencies section, into a PackageMetadata
\* with the package's field values (keywords in document order) and
\* exactly the name-to-version pairs of its dependencies section.  The
\* legacy loader panics on a manifest without dependencies and the bufflib
\* struct has no dependencies field, so this statement is violated.
C24Original ==
  \A p \in Procs :
    cmd[p] \in ManifestLoaders /\ Package_ok(manifest) =>
      /\ pc[p] = "done"
      /\ \A f \in PackageFields : metadata[p].package[f] = manifest.fields[f]
      /\ DependenciesOf(metadata[p]) =
           (IF manifest.has_dependencies THEN manifest.dependencies ELSE {})

\* C25: rewind ordering in create_tar.  Both create_tar functions put the
\* temporary archive back at offset zero after the last entry is written
\* and the builder finished, before the compressor reads, so the
\* compressed output holds the archive from its first entry, the root's,
\* to its last: one entry for the root and one for every path reached.
ThmC25 ==
  \A p \in Procs :
    HoldsArchive(p) =>
      /\ Len(GzDecode(artifact_bytes[p])) =
           1 + Cardinality({n \in tree.nodes : Reached(tree, n)})
      /\ GzDecode(artifact_bytes[p])[1].kind = "dir"
      /\ GzDecode(artifact_bytes[p])[1].name \in {CurDir, tree.at}

WitC25 ==
  \E p, q \in Procs :
    /\ cmd[p] = "publish" /\ pc[p] = "built"
    /\ cmd[q] = "create_artifact" /\ pc[q] = "done"
    /\ Len(GzDecode(artifact_bytes[p])) >= 4
    /\ Len(GzDecode(artifact_bytes[q])) >= 4

\* C26: deterministic traversal.  Two archive builds by bufflib over the
\* same unchanged directory give the same sequence of entries: the archive
\* a publish stages equals the one it built for sending, and the archives
\* of two invocations are equal.
StagedSameAsBuilt ==
  \A p \in Procs :
    cmd[p] = "publish" /\ (pc[p] \in {"staged", "done"} \/ err[p] = "rpc") =>
      GzDecode(tmpfiles["/tmp/abc"].bytes) = GzDecode(artifact_bytes[p])

SameAcrossInvocations ==
  \A p, q \in Procs :
    BuiltByBufflib(p) /\ BuiltByBufflib(q) =>
      GzDecode(artifact_bytes[p]) = GzDecode(artifact_bytes[q])

C27Original ==
  /\ \A p \in Procs : err[p] # "parse"
  /\ (file.exists =>
        /\ from_str_ok(file.text) /\ legacy_from_str_ok(file.text)
        /\ from_str(file.text).registries = legacy_from_str(file.text).registries)

\* The save of a login that no other save came between its load and.
SequentialSave(p) ==
  LoginSave(p) /\ pc'[p] = "done" /\ loadedAfter[p] = Len(saves)

\* C28: sequential logins accumulate.  The save of a login that did not
\* overlap another one leaves a document with the new token under its
\* endpoint, every other endpoint's credential and preferred_registry as
\* they were; a login that fails leaves the document as it was; so after
\* two logins in a row the document holds the later token, and the
\* earlier one where the endpoints differ.
AccumulateStep ==
  \A p \in Procs :
    SequentialSave(p) =>
      /\ from_str_ok(file'.text)
      /\ Cred(from_str(file'.text), sent[p]) = {token[p]}
      /\ (file.exists =>
            /\ from_str(file'.text).preferred_registry =
                 from_str(file.text).preferred_registry
            /\ \A u \in URLs \ {sent[p]} :
                 Cred(from_str(file'.text), u) = Cred(from_str(file.text), u))

FailedLoginStep ==
  \A p \in Procs :
    cmd'[p] = "login" /\ pc'[p] = "panicked" /\ pc[p] # "panicked" =>
      file' = file /\ missingDirs' = missingDirs

LatestTokenWins ==
  \A p, q \in Procs :
    (/\ saves = <<p, q>> /\ loadedAfter[q] = 1
     /\ cmd[p] = "login" /\ cmd[q] = "login") =>
      /\ Cred(from_str(file.text), sent[q]) = {token[q]}
      /\ (sent[p] # sent[q] => Cred(from_str(file.text), sent[p]) = {token[p]})

ThmC28 == []LatestTokenWins /\ [][AccumulateStep /\ FailedLoginStep]_vars

WitC28 ==
  \E p, q \in Procs :
    /\ saves = <<p, q>> /\ loadedAfter[q] = 1
    /\ cmd[p] = "login" /\ cmd[q] = "login" /\ token[p] # token[q]
    /\ \E u \in URLs \ {sent[q]} : Cred(from_str(file.text), u) # {}

\* C29: token provenance.  In every login, bufflib or legacy, the key the
\* token is stored under is the endpoint the Login RPC was sent to: the
\* save step adds the token under that endpoint and nothing else to the
\* store the invocation loaded, whatever BUFF_REGISTRY_URL or the
\* document's preferred_registry say by then, and writes that store.
ProvenanceStep ==
  \A p \in Procs :
    LoginSave(p) \/ ExecuteSave(p) =>
      /\ sent[p] = channel[p] /\ token[p] \in Tokens
      /\ Cred(config'[p], sent[p]) = {token[p]}
      /\ \A u \in URLs \ {sent[p]} : Cred(config'[p], u) = Cred(config[p], u)
      /\ (pc'[p] = "done" => RegsOf(file'.text) = config'[p].registries)

\* A token an invocation holds came from the RPC it sent.
TokenFromRpc ==
  \A p \in Procs : token[p] # "" => rpcs[p] = 1 /\ sent[p] \in URLs

ThmC29 == []TokenFromRpc /\ [][ProvenanceStep]_vars

WitC29 ==
  \E p \in Procs :
    /\ cmd[p] = "login" /\ pc[p] = "done" /\ found[p]
    /\ BUFF_REGISTRY_URL[p] \notin {Unset, sent[p]}
    /\ <<sent[p], token[p]>> \in RegsOf(file.text)
    /\ Cred(from_str(file.text), BUFF_REGISTRY_URL[p]) = {}

\* ---------------------- the package directory changing under a publish
\* The files another process may create or delete in the package
\* directory: regular, not hidden, in the root or an existing directory.
Editable(t) ==
  {n \in Paths \ DirPaths :
     /\ LastOf(n) \notin HiddenNames
     /\ (Len(n) > 1 => Parent(n) \in t.nodes)}

\* Another process creates or deletes one file of the directory that
\* Walk::new(path) of create_tar reads; each call of create_tar sees the
\* directory as it is when it walks.
ModifyTree ==
  /\ tree.exists
  /\ \E n \in Editable(tree) :
       tree' = [tree EXCEPT !.nodes =
                  IF n \in @ THEN @ \ {n} ELSE @ \cup {n},
                !.unreadable = @ \ {n}]
  /\ UNCHANGED <<file, missingDirs, saves, pc, cmd, BUFF_REGISTRY_URL, found,
                 loadedAfter, config, registry_url, channel, sent, token, err>>
  /\ UNCHANGED <<tmpfiles, artifact_bytes, request, rpcs>>
  /\ UNCHANGED <<BUFF_HOME, location, manifest, metadata>>

NextModify ==
  \/ PublishNew(PublishSession)
  \/ PublishBuild(PublishSession)
  \/ PublishStage(PublishSession)
  \/ PublishRpc(PublishSession)
  \/ ModifyTree

SpecModify == Init /\ [][NextModify]_vars

\* C30 as stated: one artifact per publish.  The bytes at the staging
\* path are the bytes the Publish RPC carried, also when another process
\* modifies the package directory while publish runs.
C30Original ==
  \A p \in Procs :
    PublishSent(p) =>
      /\ tmpfiles["/tmp/abc"].exists
      /\ tmpfiles["/tmp/abc"].bytes = request[p].artifact

====
